---- MODULE Spec2Model ----
(***************************************************************************)
(* Event scheduling system: the relational event store                     *)
(* (database_service.EventService over models.Event / models.Participant), *)
(* the in-memory EventStore, the SOAP envelope endpoint and the JSON/HTTP  *)
(* endpoints of event_service.py.                                          *)
(*                                                                         *)
(* One request (or one direct service call) is one step: a handler runs    *)
(* inside one database session whose commit or rollback ends it.           *)
(***************************************************************************)
EXTENDS Naturals, Sequences, FiniteSets, TLC

VARIABLES
    events,          \* table `events`: rows in rowid (insertion) order
    participants,    \* table `participants`: rows in rowid (insertion) order
    EVENT_STORE,     \* event_store.EVENT_STORE: dicts in insertion order
    issued,          \* number of identifiers uuid.uuid4() has produced so far
    clock,           \* number of timestamps datetime.utcnow() has produced so far
    enumConstraint,  \* whether the schema enforces the Enum columns (CHECK constraint)
    returned,        \* history: identifiers returned by add_event so far
    removed,         \* history: identifiers for which delete_event returned True so far
    reader,          \* a get_event under way in another request: the row it has read
    resp             \* the last response (or the result of the last direct call)

vars ==
    <<events, participants, EVENT_STORE, issued, clock, enumConstraint, returned, removed,
      reader, resp>>

-----------------------------------------------------------------------------
(* Bounds of the model.                                                    *)

\* identifiers uuid4 may produce in one behaviour (= events ever added)
MaxIds == 2
\* timestamps utcnow may produce in one behaviour (= successful adds and updates)
MaxClock == 2

-----------------------------------------------------------------------------
(* Python values.                                                          *)

\* Python's None (also a JSON null and the text of an empty XML element)
None == "<None>"

\* str(v) of a string or None
Str(v) == IF v = None THEN "None" ELSE v

\* bool(v) of a string or None
Truthy(v) == v # None /\ v # ""

\* `key in data`
Has(data, key) == key \in DOMAIN data

\* data.get(key)
Get(data, key) == IF key \in DOMAIN data THEN data[key] ELSE None

\* data.get(key, default)
GetDefault(data, key, default) == IF key \in DOMAIN data THEN data[key] ELSE default

\* the value of an unset Date / Time attribute (a date is <<y, m, d>>, a time <<h, m, s>>)
NoValue == <<>>

\* the n-th identifier uuid4 produces; distinct draws are distinct strings
Uuid(n) == "uuid-" \o ToString(n)

\* an identifier no uuid4 call ever produced
NeverIssued == "uuid-x"

Pad2(n) == IF n < 10 THEN "0" \o ToString(n) ELSE ToString(n)

Pad4(n) ==
    IF n < 10 THEN "000" \o ToString(n)
    ELSE IF n < 100 THEN "00" \o ToString(n)
    ELSE IF n < 1000 THEN "0" \o ToString(n)
    ELSE ToString(n)

\* isoformat without the zero padding
isoformat_unpadded(d) == ToString(d[1]) \o "-" \o ToString(d[2]) \o "-" \o ToString(d[3])

\* date.isoformat()
isoformat(d) == Pad4(d[1]) \o "-" \o Pad2(d[2]) \o "-" \o Pad2(d[3])

\* time.strftime('%H:%M:%S')
strftime(t) == Pad2(t[1]) \o ":" \o Pad2(t[2]) \o ":" \o Pad2(t[3])

\* what datetime.strptime(s, '%Y-%m-%d').date() accepts among the strings of the
\* model: %m and %d take one or two digits, so an unpadded date parses too
DateTable ==
    ("2025-10-05" :> <<2025, 10, 5>>) @@ ("2025-1-5" :> <<2025, 1, 5>>)

\* what datetime.strptime(s, '%H:%M:%S').time() accepts among the strings of the model
TimeTable ==
    ("10:00:00" :> <<10, 0, 0>>) @@ ("9:30:00" :> <<9, 30, 0>>)

strptime_date(s) ==
    IF s \in DOMAIN DateTable
    THEN [ok |-> TRUE, value |-> DateTable[s], exc |-> ""]
    ELSE [ok |-> FALSE, value |-> NoValue,
          exc |-> "time data '" \o s \o "' does not match format '%Y-%m-%d'"]

strptime_time(s) ==
    IF s \in DOMAIN TimeTable
    THEN [ok |-> TRUE, value |-> TimeTable[s], exc |-> ""]
    ELSE [ok |-> FALSE, value |-> NoValue,
          exc |-> "time data '" \o s \o "' does not match format '%H:%M:%S'"]

-----------------------------------------------------------------------------
(* models.py                                                               *)

Importances == {"low", "medium", "high"}

Recurrences == {"none", "daily", "weekly", "monthly", "annually"}

\* the scalar columns a client sets
ScalarFields ==
    {"title", "agenda", "date", "time", "importance", "location", "coordinator", "recurrence"}

\* [p.name for p in self.participants]: the rows of the event, in rowid order
ParticipantNames(pa, id) ==
    LET mine == SelectSeq(pa, LAMBDA r : r.event_id = id)
    IN  [i \in 1..Len(mine) |-> mine[i].name]

\* Event.to_dict
to_dict(row, pa) ==
    [id |-> row.id,
     title |-> row.title,
     agenda |-> row.agenda,
     date |-> IF row.date # NoValue THEN isoformat(row.date) ELSE None,
     time |-> IF row.time # NoValue THEN strftime(row.time) ELSE None,
     importance |-> row.importance,
     location |-> row.location,
     coordinator |-> row.coordinator,
     recurrence |-> row.recurrence,
     participants |-> ParticipantNames(pa, row.id),
     created_at |-> row.created_at,
     updated_at |-> row.updated_at]

\* from_dict whose defaults are low and daily
from_dict_other_defaults(data) ==
    LET d == IF Truthy(Get(data, "date")) THEN strptime_date(data["date"])
             ELSE [ok |-> TRUE, value |-> NoValue, exc |-> ""]
        t == IF Truthy(Get(data, "time")) THEN strptime_time(data["time"])
             ELSE [ok |-> TRUE, value |-> NoValue, exc |-> ""]
    IN  IF ~d.ok THEN [ok |-> FALSE, exc |-> d.exc]
        ELSE IF ~t.ok THEN [ok |-> FALSE, exc |-> t.exc]
        ELSE [ok |-> TRUE, exc |-> "",
              event |-> [title |-> Get(data, "title"),
                         agenda |-> Get(data, "agenda"),
                         date |-> d.value,
                         time |-> t.value,
                         importance |-> GetDefault(data, "importance", "low"),
                         location |-> Get(data, "location"),
                         coordinator |-> Get(data, "coordinator"),
                         recurrence |-> GetDefault(data, "recurrence", "daily")]]

\* Event.from_dict: the new, unflushed Event, or the ValueError strptime raises
from_dict(data) ==
    LET d == IF Truthy(Get(data, "date")) THEN strptime_date(data["date"])
             ELSE [ok |-> TRUE, value |-> NoValue, exc |-> ""]
        t == IF Truthy(Get(data, "time")) THEN strptime_time(data["time"])
             ELSE [ok |-> TRUE, value |-> NoValue, exc |-> ""]
    IN  IF ~d.ok THEN [ok |-> FALSE, exc |-> d.exc]
        ELSE IF ~t.ok THEN [ok |-> FALSE, exc |-> t.exc]
        ELSE [ok |-> TRUE, exc |-> "",
              event |-> [title |-> Get(data, "title"),
                         agenda |-> Get(data, "agenda"),
                         date |-> d.value,
                         time |-> t.value,
                         importance |-> GetDefault(data, "importance", "medium"),
                         location |-> Get(data, "location"),
                         coordinator |-> Get(data, "coordinator"),
                         recurrence |-> GetDefault(data, "recurrence", "none")]]

\* Event.update_from_dict: the modified Event, or the ValueError strptime raises.
\* The JSON and XML payloads of the model carry strings or None, never date objects.
update_from_dict(row, data, now) ==
    LET d == IF Has(data, "date") /\ data["date"] # None THEN strptime_date(data["date"])
             ELSE [ok |-> TRUE, value |-> row.date, exc |-> ""]
        t == IF Has(data, "time") /\ data["time"] # None THEN strptime_time(data["time"])
             ELSE [ok |-> TRUE, value |-> row.time, exc |-> ""]
    IN  IF ~d.ok THEN [ok |-> FALSE, exc |-> d.exc]
        ELSE IF ~t.ok THEN [ok |-> FALSE, exc |-> t.exc]
        ELSE [ok |-> TRUE, exc |-> "",
              event |-> [id |-> row.id,
                         title |-> GetDefault(data, "title", row.title),
                         agenda |-> GetDefault(data, "agenda", row.agenda),
                         date |-> d.value,
                         time |-> t.value,
                         importance |-> GetDefault(data, "importance", row.importance),
                         location |-> GetDefault(data, "location", row.location),
                         coordinator |-> GetDefault(data, "coordinator", row.coordinator),
                         recurrence |-> GetDefault(data, "recurrence", row.recurrence),
                         created_at |-> row.created_at,
                         updated_at |-> now]]

\* The constraints of table `events` on a row about to be written: the columns
\* declared nullable=False, and the Enum columns where the schema enforces them.
\* "" when the row is accepted, otherwise the IntegrityError.
ConstraintError(row, chk) ==
    IF row.title = None THEN "NOT NULL constraint failed: events.title"
    ELSE IF row.date = NoValue THEN "NOT NULL constraint failed: events.date"
    ELSE IF row.time = NoValue THEN "NOT NULL constraint failed: events.time"
    ELSE IF row.importance = None THEN "NOT NULL constraint failed: events.importance"
    ELSE IF row.coordinator = None THEN "NOT NULL constraint failed: events.coordinator"
    ELSE IF row.recurrence = None THEN "NOT NULL constraint failed: events.recurrence"
    ELSE IF chk /\ row.importance \notin Importances THEN "CHECK constraint failed: importance_type"
    ELSE IF chk /\ row.recurrence \notin Recurrences THEN "CHECK constraint failed: recurrence_type"
    ELSE ""

\* The INSERT of a new Event: a None attribute is left out of the statement, so
\* the column defaults of id, importance, recurrence, created_at, updated_at apply.
InsertRow(event, newid, now) ==
    [id |-> newid,
     title |-> event.title,
     agenda |-> event.agenda,
     date |-> event.date,
     time |-> event.time,
     importance |-> IF event.importance = None THEN "medium" ELSE event.importance,
     location |-> event.location,
     coordinator |-> event.coordinator,
     recurrence |-> IF event.recurrence = None THEN "none" ELSE event.recurrence,
     created_at |-> now,
     updated_at |-> now]

-----------------------------------------------------------------------------
(* database_service.py: EventService over the two tables.  Each operator   *)
(* takes the tables (ev, pa) and yields the tables after the call's commit *)
(* or rollback, with the value returned or the exception raised.           *)

\* the index of the row with primary key id, 0 when there is none (Event.query.get)
RowIndex(ev, id) ==
    IF \E i \in 1..Len(ev) : ev[i].id = id
    THEN CHOOSE i \in 1..Len(ev) : ev[i].id = id
    ELSE 0

\* `if participant_name:` keeps the non-empty names, in order
SkipEmpty(names) == SelectSeq(names, Truthy)

\* Participant(name=..., event_id=...) for each name, in order
NewParticipants(names, id) ==
    [i \in 1..Len(names) |-> [name |-> names[i], event_id |-> id]]

\* the participant names, among the values of the model, that are not text
\* (a JSON object given as a name): the INSERT of such a participant raises
\* when its parameters are bound
NotBindable == {"{'name': 'Erin'}"}

\* the INSERT of the participants named: "" when accepted, otherwise the error
BindError(names) ==
    IF \E i \in 1..Len(names) : names[i] \in NotBindable
    THEN "Error binding parameter: type 'dict' is not supported"
    ELSE ""

\* the bulk delete left out
DeleteParticipants_none(pa, id) == pa

\* Participant.query.filter_by(event_id=id).delete()
DeleteParticipants(pa, id) == SelectSeq(pa, LAMBDA r : r.event_id # id)

\* the except branch: db.session.rollback() and raise Exception(prefix + str(e))
Rollback(ev, pa, message) ==
    [ok |-> FALSE, events |-> ev, participants |-> pa, value |-> None, ret |-> FALSE,
     exc |-> message]

\* database_service.EventService.add_event
Db_add_event(ev, pa, data, newid, now, chk) ==
    LET made == from_dict(data)
        row  == InsertRow(made.event, newid, now)
        names == IF Has(data, "participants") /\ data["participants"] # <<>>
                 THEN SkipEmpty(data["participants"]) ELSE <<>>
    IN  IF ~made.ok
        THEN Rollback(ev, pa, "Failed to add event: " \o made.exc)
        ELSE IF ConstraintError(row, chk) # ""
        THEN Rollback(ev, pa, "Failed to add event: " \o ConstraintError(row, chk))
        ELSE IF RowIndex(ev, newid) # 0
        THEN Rollback(ev, pa, "Failed to add event: UNIQUE constraint failed: events.id")
        ELSE IF BindError(names) # ""
        THEN Rollback(ev, pa, "Failed to add event: " \o BindError(names))
        ELSE [ok |-> TRUE,
              events |-> Append(ev, row),
              participants |-> pa \o NewParticipants(names, newid),
              value |-> newid, ret |-> TRUE, exc |-> ""]

\* database_service.EventService.get_event: <<>> for None, <<dict>> for an event
Db_get_event(ev, pa, id) ==
    IF RowIndex(ev, id) = 0 THEN <<>> ELSE <<to_dict(ev[RowIndex(ev, id)], pa)>>

\* get_all_events that returns the first event only
Db_get_all_events_first(ev, pa) ==
    [i \in 1..(IF Len(ev) > 0 THEN 1 ELSE 0) |-> to_dict(ev[i], pa)]

\* database_service.EventService.get_all_events
Db_get_all_events(ev, pa) == [i \in 1..Len(ev) |-> to_dict(ev[i], pa)]

\* update_event whose bulk delete of the participants is not rolled back
\* when the INSERT of the new participants fails
Db_update_event_delete_kept(ev, pa, data, now, chk) ==
    IF RowIndex(ev, Get(data, "id")) # 0 /\ Has(data, "participants")
       /\ BindError(SkipEmpty(data["participants"])) # ""
    THEN Rollback(ev, DeleteParticipants(pa, Get(data, "id")),
                  "Failed to update event: " \o BindError(SkipEmpty(data["participants"])))
    ELSE [ok |-> TRUE, events |-> ev, participants |-> pa, value |-> None, ret |-> FALSE,
          exc |-> ""]

\* update_event that commits the fields assigned before the date or time of
\* the payload failed to parse, and then raises
Db_update_event_no_rollback(ev, pa, data, now, chk) ==
    LET i == RowIndex(ev, Get(data, "id"))
        upd == update_from_dict(ev[i], data, now)
        assigned == [ev[i] EXCEPT !.title = GetDefault(data, "title", ev[i].title),
                                  !.agenda = GetDefault(data, "agenda", ev[i].agenda)]
    IN  IF i # 0 /\ ~upd.ok
        THEN Rollback([ev EXCEPT ![i] = assigned], pa, "Failed to update event: " \o upd.exc)
        ELSE [ok |-> TRUE, events |-> ev, participants |-> pa, value |-> None,
              ret |-> FALSE, exc |-> ""]

\* update_event that reports success without looking the event up
Db_update_event_always_true(ev, pa, data, now, chk) ==
    [ok |-> TRUE, events |-> ev, participants |-> pa, value |-> None, ret |-> TRUE,
     exc |-> ""]

\* database_service.EventService.update_event
Db_update_event(ev, pa, data, now, chk) ==
    LET event_id == Get(data, "id")
        i == RowIndex(ev, event_id)
        upd == update_from_dict(ev[i], data, now)
        pa2 == IF Has(data, "participants")
               THEN DeleteParticipants(pa, event_id)
                    \o NewParticipants(SkipEmpty(data["participants"]), event_id)
               ELSE pa
    IN  IF ~Truthy(event_id) \/ i = 0
        THEN [ok |-> TRUE, events |-> ev, participants |-> pa, value |-> None,
              ret |-> FALSE, exc |-> ""]
        ELSE IF ~upd.ok
        THEN Rollback(ev, pa, "Failed to update event: " \o upd.exc)
        ELSE IF ConstraintError(upd.event, chk) # ""
        THEN Rollback(ev, pa, "Failed to update event: " \o ConstraintError(upd.event, chk))
        ELSE IF Has(data, "participants") /\ BindError(SkipEmpty(data["participants"])) # ""
        THEN Rollback(ev, pa, "Failed to update event: "
                              \o BindError(SkipEmpty(data["participants"])))
        ELSE [ok |-> TRUE, events |-> [ev EXCEPT ![i] = upd.event], participants |-> pa2,
              value |-> None, ret |-> TRUE, exc |-> ""]

\* delete_event that removes the event row and leaves its participants
Db_delete_event_keeping_participants(ev, pa, id) ==
    IF \A i \in 1..Len(ev) : ev[i].id # id
    THEN [ok |-> TRUE, events |-> ev, participants |-> pa, value |-> None,
          ret |-> FALSE, exc |-> ""]
    ELSE [ok |-> TRUE,
          events |-> SelectSeq(ev, LAMBDA r : r.id # id),
          participants |-> pa,
          value |-> None, ret |-> TRUE, exc |-> ""]

\* delete_event that does not look the event up first
Db_delete_event_unchecked(ev, pa, id) ==
    [ok |-> TRUE,
     events |-> SelectSeq(ev, LAMBDA r : r.id # id),
     participants |-> SelectSeq(pa, LAMBDA r : r.event_id # id),
     value |-> None, ret |-> TRUE, exc |-> ""]

\* database_service.EventService.delete_event
Db_delete_event(ev, pa, id) ==
    IF RowIndex(ev, id) = 0
    THEN [ok |-> TRUE, events |-> ev, participants |-> pa, value |-> None,
          ret |-> FALSE, exc |-> ""]
    ELSE [ok |-> TRUE,
          events |-> SelectSeq(ev, LAMBDA r : r.id # id),
          participants |-> DeleteParticipants(pa, id),
          value |-> None, ret |-> TRUE, exc |-> ""]

-----------------------------------------------------------------------------
(* event_store.py: the in-memory EventStore over EVENT_STORE.              *)

\* the index of the dict stored under key id, 0 when there is none
StoreIndex(store, id) ==
    IF \E i \in 1..Len(store) : store[i]["id"] = id
    THEN CHOOSE i \in 1..Len(store) : store[i]["id"] = id
    ELSE 0

\* EventStore.add_event: dict(event_data) with 'id' set to the new identifier
Store_add_event(store, data, newid) ==
    [store |-> Append(store, ("id" :> newid) @@ data), value |-> newid]

\* the caller's dict after an add_event that sets the id on event_data itself
Store_add_event_in_place(data, newid) == ("id" :> newid) @@ data

\* the caller's dict after EventStore.add_event: the id is set on the copy
\* dict(event_data), event_data itself is only read
Store_add_event_data(data, newid) == data

\* the caller's dict after database_service.EventService.add_event: from_dict
\* and the participants loop read it with .get and never assign to it
Db_add_event_data(data, newid) == data

\* EventStore.get_event: <<>> for None, <<dict>> for an event
Store_get_event(store, id) ==
    IF StoreIndex(store, id) = 0 THEN <<>> ELSE <<store[StoreIndex(store, id)]>>

\* EventStore.get_all_events
Store_get_all_events(store) == store

\* update_event that stores the payload as a new event when its id is absent
Store_update_event_upsert(store, data) ==
    LET i == StoreIndex(store, Get(data, "id"))
    IN  IF i # 0
        THEN [store |-> [store EXCEPT ![i] = data @@ store[i]], ret |-> TRUE]
        ELSE IF Has(data, "id")
        THEN [store |-> Append(store, data), ret |-> TRUE]
        ELSE [store |-> store, ret |-> FALSE]

\* EventStore.update_event: dict.update(event_data) on the stored dict
Store_update_event(store, data) ==
    LET i == StoreIndex(store, Get(data, "id"))
    IN  IF i # 0
        THEN [store |-> [store EXCEPT ![i] = data @@ store[i]], ret |-> TRUE]
        ELSE [store |-> store, ret |-> FALSE]

\* EventStore.delete_event
Store_delete_event(store, id) ==
    IF StoreIndex(store, id) # 0
    THEN [store |-> SelectSeq(store, LAMBDA r : r["id"] # id), ret |-> TRUE]
    ELSE [store |-> store, ret |-> FALSE]

-----------------------------------------------------------------------------
(* event_service.py: validation, the envelope codec, the service wrappers. *)

\* validate_importance that accepts every value
validate_importance_lenient(value) == ""

\* validate_importance: "" when accepted, otherwise the ValueError
validate_importance(value) ==
    IF value \notin {"low", "medium", "high"}
    THEN "Invalid importance value: " \o Str(value)
    ELSE ""

\* validate_recurrence: "" when accepted, otherwise the ValueError
validate_recurrence(value) ==
    IF value \notin {"none", "daily", "weekly", "monthly", "annually"}
    THEN "Invalid recurrence value: " \o Str(value)
    ELSE ""

\* the validation both service wrappers run first: "" or the first ValueError
ValidateFields(data) ==
    IF Has(data, "importance") /\ validate_importance(data["importance"]) # ""
    THEN validate_importance(data["importance"])
    ELSE IF Has(data, "recurrence") /\ validate_recurrence(data["recurrence"]) # ""
    THEN validate_recurrence(data["recurrence"])
    ELSE ""

\* event_service.EventService.add_event
Svc_add_event(ev, pa, data, newid, now, chk) ==
    LET r == Db_add_event(ev, pa, data, newid, now, chk)
    IN  IF ValidateFields(data) # ""
        THEN Rollback(ev, pa, "Failed to add event: " \o ValidateFields(data))
        ELSE IF ~r.ok
        THEN Rollback(r.events, r.participants, "Failed to add event: " \o r.exc)
        ELSE r

\* event_service.EventService.update_event
Svc_update_event(ev, pa, data, now, chk) ==
    LET r == Db_update_event(ev, pa, data, now, chk)
    IN  IF ValidateFields(data) # ""
        THEN Rollback(ev, pa, "Failed to update event: " \o ValidateFields(data))
        ELSE IF ~r.ok
        THEN Rollback(r.events, r.participants, "Failed to update event: " \o r.exc)
        ELSE r

\* the element names parse_event_from_xml and create_event_xml go through
XmlFields ==
    {"id", "title", "agenda", "date", "time", "importance", "location", "coordinator",
     "recurrence"}

\* A dict with no key.
EmptyDict == <<>>

\* parse_event_from_xml.  The event element is given by the texts of its field
\* elements (None for an element without text) and, under "participants", the
\* texts of the participant elements.
parse_event_from_xml(element) ==
    [k \in DOMAIN element \cap (XmlFields \cup {"participants"}) |->
        IF k = "participants" THEN SkipEmpty(element[k]) ELSE element[k]]

\* child.tag.endswith(name) for a tag <<prefix, name>>, the string prefix + name;
\* no operation name is a suffix of another
EndsWith(tag, name) == tag[2] = name

\* the loop of parse_soap_request over the children of Body, from child i on:
\* every recognized child assigns operation (and event_data or event_id) anew
RECURSIVE ParseChildren(_, _, _)
ParseChildren(children, i, acc) ==
    IF i > Len(children) THEN acc
    ELSE LET child == children[i]
             next ==
                IF EndsWith(child.tag, "AddEvent")
                THEN [acc EXCEPT !.operation = "AddEvent",
                                 !.event_data = parse_event_from_xml(child.event)]
                ELSE IF EndsWith(child.tag, "GetEvent")
                THEN [acc EXCEPT !.operation = "GetEvent", !.event_id = child.eventId]
                ELSE IF EndsWith(child.tag, "GetAllEvents")
                THEN [acc EXCEPT !.operation = "GetAllEvents"]
                ELSE IF EndsWith(child.tag, "UpdateEvent")
                THEN [acc EXCEPT !.operation = "UpdateEvent",
                                 !.event_data = parse_event_from_xml(child.event)]
                ELSE IF EndsWith(child.tag, "DeleteEvent")
                THEN [acc EXCEPT !.operation = "DeleteEvent", !.event_id = child.eventId]
                ELSE acc
         IN  ParseChildren(children, i + 1, next)

\* parse_soap_request that takes a Body without a recognized child for GetAllEvents
parse_soap_request_default(xml) ==
    [ok |-> xml.wellformed /\ xml.body, exc |-> "SOAP Body not found",
     operation |-> "GetAllEvents", event_data |-> EmptyDict, event_id |-> None]

\* parse_soap_request that reads the operation wherever the element stands
parse_soap_request_anywhere(xml) ==
    ParseChildren(xml.children, 1,
        [ok |-> TRUE, exc |-> "", operation |-> None, event_data |-> EmptyDict,
         event_id |-> None])

\* parse_soap_request.  A request is [wellformed, body, children]; a child is
\* [tag, event, eventId], eventId being the text of its eventId element (None
\* when it has none).  event_data None is given as the empty dict: it is only
\* read for AddEvent and UpdateEvent, which set it.
parse_soap_request(xml) ==
    IF ~xml.wellformed
    THEN [ok |-> FALSE, exc |-> "Invalid XML: syntax error", operation |-> None,
          event_data |-> EmptyDict, event_id |-> None]
    ELSE IF ~xml.body
    THEN [ok |-> FALSE, exc |-> "SOAP Body not found", operation |-> None,
          event_data |-> EmptyDict, event_id |-> None]
    ELSE ParseChildren(xml.children, 1,
            [ok |-> TRUE, exc |-> "", operation |-> None, event_data |-> EmptyDict,
             event_id |-> None])

\* create_event_xml that writes no participants element
create_event_xml_fields_only(event_data) ==
    [k \in {f \in XmlFields : Has(event_data, f) /\ event_data[f] # None} |-> event_data[k]]

\* create_event_xml: the event element, by the texts of its field elements
create_event_xml(event_data) ==
    LET fields == {f \in XmlFields : Has(event_data, f) /\ event_data[f] # None}
        withParticipants ==
            IF Has(event_data, "participants") /\ event_data["participants"] # <<>>
            THEN {"participants"} ELSE {}
    IN  [k \in fields \cup withParticipants |-> event_data[k]]

\* the text an element is read with after ET.tostring and ET.fromstring: an
\* element written with the empty text is read with the text None
XmlText(v) == IF v = "" THEN None ELSE v

\* an event element after ET.tostring and ET.fromstring
Serialized(element) ==
    [k \in DOMAIN element |->
        IF k = "participants"
        THEN [i \in 1..Len(element[k]) |-> XmlText(element[k][i])]
        ELSE XmlText(element[k])]

\* create_soap_response that writes str(success) for UpdateEvent and DeleteEvent
create_soap_response_str(operation, data, success, error) ==
    IF error # None /\ error # ""
    THEN [fault |-> TRUE, faultcode |-> "Server", text |-> error, element |-> None,
          data |-> <<>>]
    ELSE [fault |-> FALSE, faultcode |-> None,
          element |-> operation \o "Response",
          text |-> IF operation = "AddEvent" /\ data # None THEN data
                   ELSE IF operation \in {"UpdateEvent", "DeleteEvent"}
                   THEN (IF success THEN "True" ELSE "False")
                   ELSE None,
          data |-> IF operation \in {"GetEvent", "GetAllEvents"} THEN data ELSE <<>>]

\* create_soap_response.  data is None, an identifier, or a list of event dicts
\* (GetEvent's single dict as a list of one).  The Body holds either a Fault
\* (element = None) or the element <operation>Response.
create_soap_response(operation, data, success, error) ==
    IF Truthy(error)
    THEN [fault |-> TRUE, faultcode |-> "Server", text |-> Str(error), element |-> None,
          data |-> <<>>]
    ELSE [fault |-> FALSE, faultcode |-> None,
          element |-> operation \o "Response",
          text |-> IF operation = "AddEvent" /\ Truthy(data) THEN data
                   ELSE IF operation \in {"UpdateEvent", "DeleteEvent"}
                   THEN (IF success THEN "true" ELSE "false")
                   ELSE None,
          data |-> IF operation \in {"GetEvent", "GetAllEvents"}
                   THEN [i \in 1..Len(data) |-> create_event_xml(data[i])]
                   ELSE <<>>]

\* a response whose status is 500 whenever its Body holds a Fault
SoapResponse_by_fault(status, body) ==
    [via |-> "soap", status |-> IF body.fault THEN 500 ELSE 200, fault |-> body.fault,
     element |-> body.element, arg |-> None, text |-> body.text, data |-> body.data]

\* an HTTP response of the SOAP endpoint
SoapResponse(status, body) ==
    [via |-> "soap", status |-> status, fault |-> body.fault, element |-> body.element,
     arg |-> None, text |-> body.text, data |-> body.data]

\* soap_endpoint: the tables after the request, and the response
soap_endpoint(ev, pa, xml, newid, now, chk) ==
    LET req == parse_soap_request(xml)
        same(response) ==
            [events |-> ev, participants |-> pa, value |-> None, resp |-> response]
        failed(message) ==
            same(SoapResponse(500, create_soap_response("Error", None, FALSE, message)))
        raised(r) ==
            [events |-> r.events, participants |-> r.participants, value |-> None,
             resp |-> SoapResponse(500, create_soap_response("Error", None, FALSE, r.exc))]
        added == Svc_add_event(ev, pa, req.event_data, newid, now, chk)
        got == Db_get_event(ev, pa, req.event_id)
        updated == Svc_update_event(ev, pa, req.event_data, now, chk)
        deleted == Db_delete_event(ev, pa, req.event_id)
    IN  IF ~req.ok THEN failed(req.exc)
        ELSE IF req.operation = "AddEvent"
        THEN IF ~added.ok THEN raised(added)
             ELSE [events |-> added.events, participants |-> added.participants,
                   value |-> added.value,
                   resp |-> SoapResponse(200,
                              create_soap_response("AddEvent", added.value, FALSE, None))]
        ELSE IF req.operation = "GetEvent"
        THEN IF got # <<>>
             THEN same(SoapResponse(200, create_soap_response("GetEvent", got, FALSE, None)))
             ELSE same(SoapResponse(200,
                         create_soap_response("GetEvent", None, FALSE, "Event not found")))
        ELSE IF req.operation = "GetAllEvents"
        THEN same(SoapResponse(200,
                    create_soap_response("GetAllEvents", Db_get_all_events(ev, pa), FALSE, None)))
        ELSE IF req.operation = "UpdateEvent"
        THEN IF ~updated.ok THEN raised(updated)
             ELSE [events |-> updated.events, participants |-> updated.participants,
                   value |-> None,
                   resp |-> SoapResponse(200,
                              create_soap_response("UpdateEvent", None, updated.ret, None))]
        ELSE IF req.operation = "DeleteEvent"
        THEN [events |-> deleted.events, participants |-> deleted.participants,
              value |-> None,
              resp |-> SoapResponse(200,
                         create_soap_response("DeleteEvent", None, deleted.ret, None))]
        ELSE same(SoapResponse(200,
                    create_soap_response("Unknown", None, FALSE, "Unknown operation")))

-----------------------------------------------------------------------------
(* event_service.py: the JSON/HTTP endpoints.  A JSON body is a dict (the  *)
(* empty dict included); the response is the status with the JSON payload: *)
(* fault is status = "error", text the error message or the event_id, data *)
(* the event dicts.                                                        *)

RestResponse(status, text, data) ==
    [via |-> "rest", status |-> status, fault |-> status >= 400, element |-> None,
     arg |-> None, text |-> text, data |-> data]

\* the first of the required fields api_create_event misses, None when it has all
MissingRequired(data) ==
    IF ~Has(data, "title") THEN "title"
    ELSE IF ~Has(data, "date") THEN "date"
    ELSE IF ~Has(data, "time") THEN "time"
    ELSE IF ~Has(data, "coordinator") THEN "coordinator"
    ELSE None

\* api_get_all_events
api_get_all_events(ev, pa) ==
    [events |-> ev, participants |-> pa, value |-> None,
     resp |-> RestResponse(200, None, Db_get_all_events(ev, pa))]

\* api_get_event
api_get_event(ev, pa, event_id) ==
    [events |-> ev, participants |-> pa, value |-> None,
     resp |-> IF Db_get_event(ev, pa, event_id) # <<>>
              THEN RestResponse(200, None, Db_get_event(ev, pa, event_id))
              ELSE RestResponse(404, "Event not found", <<>>)]

\* api_create_event
api_create_event(ev, pa, data, newid, now, chk) ==
    LET r == Db_add_event(ev, pa, data, newid, now, chk)
        same(response) ==
            [events |-> ev, participants |-> pa, value |-> None, resp |-> response]
    IN  IF DOMAIN data = {}
        THEN same(RestResponse(400, "No data provided", <<>>))
        ELSE IF MissingRequired(data) # None
        THEN same(RestResponse(400, "Missing required field: " \o MissingRequired(data), <<>>))
        ELSE IF ~r.ok
        THEN [events |-> r.events, participants |-> r.participants, value |-> None,
              resp |-> RestResponse(500, r.exc, <<>>)]
        ELSE [events |-> r.events, participants |-> r.participants, value |-> r.value,
              resp |-> RestResponse(201, r.value, <<>>)]

\* api_update_event that answers 200 whatever update_event returned
api_update_event_always_200(ev, pa, event_id, data, now, chk) ==
    [events |-> ev, participants |-> pa, value |-> None,
     resp |-> RestResponse(200, None, <<>>)]

\* api_update_event
api_update_event(ev, pa, event_id, data, now, chk) ==
    LET r == Db_update_event(ev, pa, ("id" :> event_id) @@ data, now, chk)
        same(response) ==
            [events |-> ev, participants |-> pa, value |-> None, resp |-> response]
    IN  IF DOMAIN data = {}
        THEN same(RestResponse(400, "No data provided", <<>>))
        ELSE IF ~r.ok
        THEN [events |-> r.events, participants |-> r.participants, value |-> None,
              resp |-> RestResponse(500, r.exc, <<>>)]
        ELSE IF r.ret
        THEN [events |-> r.events, participants |-> r.participants, value |-> None,
              resp |-> RestResponse(200, None, <<>>)]
        ELSE same(RestResponse(404, "Event not found", <<>>))

\* api_delete_event
api_delete_event(ev, pa, event_id) ==
    LET r == Db_delete_event(ev, pa, event_id)
    IN  [events |-> r.events, participants |-> r.participants, value |-> None,
         resp |-> IF r.ret THEN RestResponse(200, None, <<>>)
                  ELSE RestResponse(404, "Event not found", <<>>)]

-----------------------------------------------------------------------------
(* The requests of the model.                                              *)

\* Scenario A of the specification (names shortened)
BaseRecord ==
    [title |-> "Team Meeting", date |-> "2025-10-05", time |-> "10:00:00",
     importance |-> "medium", location |-> "Room A", coordinator |-> "John Smith",
     recurrence |-> "weekly", participants |-> <<"Alice", "Bob", "Carol">>]

\* the payloads with one field: valid values, values outside the enumerations,
\* a malformed and an unpadded date, a malformed time, and participant lists
\* (empty, and with an empty name in the middle)
OneField ==
    {"title" :> "Standup",
     "date" :> "2025-1-5", "date" :> "05/10/2025",
     "time" :> "25:00:00",
     "importance" :> "high", "importance" :> "urgent",
     "recurrence" :> "hourly",
     "participants" :> <<>>, "participants" :> <<"Dave", "", "Alice">>}

\* data without key k
Without(data, k) == [x \in DOMAIN data \ {k} |-> data[x]]

\* the records given to Add: Scenario A; Scenario A with a value outside an
\* enumeration, a malformed or unpadded date, a malformed time, or an empty
\* participant name; Scenario A without a required field or without a field
\* that has a default
AddInputs ==
    {BaseRecord}
    \cup {p @@ BaseRecord : p \in OneField \ {"title" :> "Standup", "importance" :> "high",
                                              "participants" :> <<>>}}
    \cup {Without(BaseRecord, k) :
            k \in {"title", "date", "time", "coordinator", "importance", "recurrence"}}

\* the payloads given to Update (without the id): one field, several fields, none
UpdateInputs ==
    OneField
    \cup {EmptyDict,
          [title |-> "Standup", participants |-> <<"Dave">>],
          [agenda |-> "Quarterly plan", time |-> "9:30:00", location |-> "Room B",
           coordinator |-> "Jane Doe", recurrence |-> "daily"]}

\* the payloads of the updates that name no event
NoIdUpdateInputs == {EmptyDict, "title" :> "Standup", "importance" :> "urgent"}

\* the records and payloads given to the two stores when both are exercised
\* in one behaviour
BackendAddInputs == {BaseRecord, ("participants" :> <<"Dave", "", "Alice">>) @@ BaseRecord}

BackendUpdateInputs ==
    {"title" :> "Standup", "date" :> "05/10/2025", "participants" :> <<>>}

\* Scenario A with a participant name that is one space
WhitespaceNameRecord == ("participants" :> <<"Dave", " ", "Alice">>) @@ BaseRecord

\* the records and payloads whose INSERT of a participant fails, after the
\* event row was written (Add) or the old participants were deleted (Update)
FailingAddInputs == {("participants" :> <<"Dave", "{'name': 'Erin'}">>) @@ BaseRecord}

FailingUpdateInputs ==
    {[title |-> "Standup", participants |-> <<"Dave", "{'name': 'Erin'}">>]}

\* the payloads that assign a title and an agenda before their date or time
\* fails to parse
MalformedUpdateInputs ==
    {[title |-> "Standup", agenda |-> "Quarterly plan", date |-> "05/10/2025"],
     [title |-> "Standup", time |-> "25:00:00"]}

\* records that carry an id key of their own: an identifier no uuid4 call
\* produced, and the identifier of the first event added
SuppliedIdRecords ==
    {("id" :> NeverIssued) @@ ("title" :> "Imported") @@ BaseRecord,
     ("id" :> Uuid(1)) @@ ("title" :> "Copy") @@ BaseRecord}

\* a record with neither importance nor recurrence
NoEnumsRecord ==
    Without(Without(("title" :> "Defaults") @@ BaseRecord, "importance"), "recurrence")

\* the records of the model that lack importance, recurrence or both
DefaultedInputs ==
    {Without(BaseRecord, "importance"), Without(BaseRecord, "recurrence"), NoEnumsRecord}

\* Scenario A with the empty title
EmptyTitleRecord == ("title" :> "") @@ BaseRecord

\* the identifiers a request names: every identifier uuid4 can have produced,
\* and one it never produced
IdInputs == {Uuid(n) : n \in 1..MaxIds} \cup {NeverIssued}

\* the envelope with one child of Body
Envelope(tag, event, eventId) ==
    [wellformed |-> TRUE, body |-> TRUE,
     children |-> <<[tag |-> tag, event |-> event, eventId |-> eventId]>>]

\* a child of Body
Child(name, event, eventId) == [tag |-> <<"", name>>, event |-> event, eventId |-> eventId]

\* the envelope requests whose Body has no child, or several: two operations
\* in either order, an unknown element before an operation, two unknown elements
SeveralChildren ==
    {[wellformed |-> TRUE, body |-> TRUE, children |-> c] :
        c \in {<<>>,
               <<Child("GetAllEvents", EmptyDict, None), Child("DeleteEvent", EmptyDict, Uuid(1))>>,
               <<Child("DeleteEvent", EmptyDict, Uuid(1)), Child("GetAllEvents", EmptyDict, None)>>,
               <<Child("Ping", EmptyDict, None), Child("GetEvent", EmptyDict, Uuid(1))>>,
               <<Child("Ping", EmptyDict, None), Child("Pong", BaseRecord, Uuid(1))>>}}

\* the requests that are not an envelope: text that is not well-formed XML,
\* and a document without a Body, each with an AddEvent element in it
NoEnvelope ==
    {[wellformed |-> w, body |-> FALSE, children |-> <<Child("AddEvent", BaseRecord, None)>>] :
        w \in BOOLEAN}

\* the envelope requests: one operation each, an unknown element, no Body,
\* malformed XML
SoapInputs ==
    {Envelope(<<"", "AddEvent">>, p, None) : p \in AddInputs}
    \cup {Envelope(<<"", "UpdateEvent">>, p, None) : p \in NoIdUpdateInputs}
    \cup {Envelope(<<"", "UpdateEvent">>, ("id" :> id) @@ p, None) :
            p \in UpdateInputs, id \in IdInputs}
    \cup {Envelope(<<"", op>>, EmptyDict, id) :
            op \in {"GetEvent", "DeleteEvent"}, id \in IdInputs \cup {None}}
    \cup {Envelope(<<"", "GetAllEvents">>, EmptyDict, None),
          Envelope(<<"", "Ping">>, EmptyDict, None),
          [wellformed |-> TRUE, body |-> FALSE, children |-> <<>>],
          [wellformed |-> FALSE, body |-> FALSE, children |-> <<>>]}
    \cup SeveralChildren
    \cup NoEnvelope
    \cup {Envelope(<<"", "AddEvent">>, WhitespaceNameRecord, None)}
    \cup {Envelope(<<"", "UpdateEvent">>, ("id" :> id) @@ p, None) :
            p \in MalformedUpdateInputs, id \in {Uuid(1), NeverIssued}}

\* the namespace of the operation elements, as ElementTree writes it in a tag
SchemaNamespace == "{http://eventscheduling.com/schemas}"

\* requests whose Body child is BulkDeleteEvent or BulkGetEvent, elements of
\* the schema namespace whose names end with the name of an operation, and
\* one whose child is DeleteEvent itself in that namespace
SuffixInputs ==
    {Envelope(<<SchemaNamespace \o "Bulk", op>>, EmptyDict, id) :
        op \in {"DeleteEvent", "GetEvent"}, id \in {Uuid(1), NeverIssued}}
    \cup {Envelope(<<SchemaNamespace, "DeleteEvent">>, EmptyDict, Uuid(1))}

\* every request sent to the envelope endpoint
SoapRequests == SoapInputs \cup SuffixInputs

\* requests of every way soap_endpoint ends: a malformed envelope, no Body, an
\* unknown operation, an operation that raises (validation, date format,
\* missing title, no id), one that does not find its event, one that succeeds
StatusInputs ==
    {Envelope(<<"", "AddEvent">>, p, None) :
        p \in {BaseRecord, ("importance" :> "urgent") @@ BaseRecord,
               ("date" :> "05/10/2025") @@ BaseRecord, Without(BaseRecord, "title")}}
    \cup {Envelope(<<"", "UpdateEvent">>, ("id" :> id) @@ p, None) :
            p \in {"title" :> "Standup", "recurrence" :> "hourly", "time" :> "25:00:00"},
            id \in IdInputs}
    \cup {Envelope(<<"", op>>, EmptyDict, id) :
            op \in {"GetEvent", "DeleteEvent"}, id \in IdInputs}
    \cup {Envelope(<<"", "UpdateEvent">>, "title" :> "Standup", None),
          Envelope(<<"", "GetAllEvents">>, EmptyDict, None),
          Envelope(<<"", "Ping">>, EmptyDict, None),
          Envelope(<<SchemaNamespace \o "Bulk", "GetEvent">>, EmptyDict, NeverIssued),
          [wellformed |-> TRUE, body |-> FALSE, children |-> <<>>],
          [wellformed |-> FALSE, body |-> FALSE, children |-> <<>>]}

-----------------------------------------------------------------------------
(* The state machine.                                                      *)

NoResponse ==
    [via |-> "none", status |-> 0, fault |-> FALSE, element |-> None, arg |-> None,
     text |-> None, data |-> <<>>]

\* a direct call of a service function and its result: element is the function,
\* arg the identifier it was called with (None when it names none), fault is
\* "it raised", text the exception or the value returned
CallResult(via, function, arg, raised, text, data) ==
    [via |-> via, status |-> 0, fault |-> raised, element |-> function, arg |-> arg,
     text |-> text, data |-> data]

\* an identifier made from the number of stored events
uuid4_by_count == Uuid(Len(events) + Len(EVENT_STORE) + 1)

\* str(uuid.uuid4()): a new identifier at every call
uuid4 == Uuid(issued + 1)

\* datetime.utcnow(): later than every timestamp produced before
utcnow == clock + 1

\* whether timestamp now is in the table
Stamped(ev, now) == \E i \in 1..Len(ev) : ev[i].updated_at = now

\* no get_event is under way
Idle == [busy |-> FALSE, id |-> None, row |-> <<>>, seen |-> <<>>]

\* the identifiers for which delete_event has returned True, after this call
Removed(response) ==
    IF response.element = "delete_event" /\ ~response.fault /\ response.text = "True"
    THEN removed \cup {response.arg}
    ELSE removed

Init ==
    /\ events = <<>>
    /\ participants = <<>>
    /\ EVENT_STORE = <<>>
    /\ issued = 0
    /\ clock = 0
    /\ enumConstraint \in BOOLEAN
    /\ returned = {}
    /\ removed = {}
    /\ reader = Idle
    /\ resp = NoResponse

\* The session ends: the tables are as the handler left them.  value is the
\* identifier add_event returned (None otherwise); it and the timestamp are
\* consumed when they were used.
Commit(r) ==
    /\ r.value # None => issued < MaxIds
    /\ Stamped(r.events, utcnow) => clock < MaxClock
    /\ events' = r.events
    /\ participants' = r.participants
    /\ resp' = r.resp
    /\ issued' = IF r.value # None THEN issued + 1 ELSE issued
    /\ returned' = IF r.value # None THEN returned \cup {r.value} ELSE returned
    /\ clock' = IF Stamped(r.events, utcnow) THEN clock + 1 ELSE clock
    /\ removed' = Removed(r.resp)
    /\ UNCHANGED <<EVENT_STORE, enumConstraint, reader>>

\* POST /soap: what soap_endpoint does with a request in the current state
SoapOutcome(xml) ==
    soap_endpoint(events, participants, xml, uuid4, utcnow, enumConstraint)

Soap(xml) == Commit(SoapOutcome(xml))

\* GET /api/events
RestGetAll == Commit(api_get_all_events(events, participants))

\* GET /api/events/<event_id>
RestGet(id) == Commit(api_get_event(events, participants, id))

\* POST /api/events
RestCreateOutcome(data) ==
    api_create_event(events, participants, data, uuid4, utcnow, enumConstraint)

RestCreate(data) == Commit(RestCreateOutcome(data))

\* PUT /api/events/<event_id>
RestUpdateOutcome(id, data) ==
    api_update_event(events, participants, id, data, utcnow, enumConstraint)

RestUpdate(id, data) == Commit(RestUpdateOutcome(id, data))

\* DELETE /api/events/<event_id>
RestDelete(id) == Commit(api_delete_event(events, participants, id))

\* the service functions called directly, as test_database.py does
DbResult(function, arg, r, data) ==
    [events |-> r.events, participants |-> r.participants, value |-> r.value,
     resp |-> CallResult("db", function, arg, ~r.ok,
                         IF ~r.ok THEN r.exc
                         ELSE IF r.value # None THEN r.value
                         ELSE IF r.ret THEN "True" ELSE "False",
                         data)]

\* EventService.add_event(event_data)
CallAddOutcome(data) ==
    DbResult("add_event", None,
             Db_add_event(events, participants, data, uuid4, utcnow, enumConstraint), <<>>)

CallAdd(data) == Commit(CallAddOutcome(data))

\* get_event that removes the event it returns
CallGetOutcome_taking(id) ==
    [events |-> SelectSeq(events, LAMBDA r : r.id # id),
     participants |-> participants, value |-> None,
     resp |-> CallResult("db", "get_event", id, FALSE, None,
                         Db_get_event(events, participants, id))]

\* EventService.get_event(event_id): a query and to_dict, no write
CallGetOutcome(id) ==
    [events |-> events, participants |-> participants, value |-> None,
     resp |-> CallResult("db", "get_event", id, FALSE, None,
                         Db_get_event(events, participants, id))]

CallGet(id) == Commit(CallGetOutcome(id))

\* EventService.get_all_events(): a query and to_dict of each row, no write
CallGetAllOutcome ==
    [events |-> events, participants |-> participants, value |-> None,
     resp |-> CallResult("db", "get_all_events", None, FALSE, None,
                         Db_get_all_events(events, participants))]

CallGetAll == Commit(CallGetAllOutcome)

\* EventService.update_event(event_data)
CallUpdateOutcome(data) ==
    DbResult("update_event", Get(data, "id"),
             Db_update_event(events, participants, data, utcnow, enumConstraint), <<>>)

CallUpdate(data) == Commit(CallUpdateOutcome(data))

\* EventService.delete_event(event_id)
CallDeleteOutcome(id) ==
    DbResult("delete_event", id, Db_delete_event(events, participants, id), <<>>)

CallDelete(id) == Commit(CallDeleteOutcome(id))

\* The in-memory store called directly.  It reads no clock; time passes all
\* the same with every add and update (ticks).
StoreCommit(r) ==
    /\ r.value # None => issued < MaxIds
    /\ r.ticks => clock < MaxClock
    /\ EVENT_STORE' = r.store
    /\ resp' = r.resp
    /\ issued' = IF r.value # None THEN issued + 1 ELSE issued
    /\ returned' = IF r.value # None THEN returned \cup {r.value} ELSE returned
    /\ clock' = IF r.ticks THEN clock + 1 ELSE clock
    /\ removed' = Removed(r.resp)
    /\ UNCHANGED <<events, participants, enumConstraint, reader>>

\* EventStore.add_event(event_data)
StoreAddOutcome(data) ==
    LET r == Store_add_event(EVENT_STORE, data, uuid4)
    IN  [store |-> r.store, value |-> r.value, ticks |-> TRUE,
         resp |-> CallResult("mem", "add_event", None, FALSE, r.value, <<>>)]

StoreAdd(data) == StoreCommit(StoreAddOutcome(data))

\* EventStore.get_event(event_id): EVENT_STORE.get, no write
StoreGetOutcome(id) ==
    [store |-> EVENT_STORE, value |-> None, ticks |-> FALSE,
     resp |-> CallResult("mem", "get_event", id, FALSE, None,
                         Store_get_event(EVENT_STORE, id))]

StoreGet(id) == StoreCommit(StoreGetOutcome(id))

\* EventStore.get_all_events(): list(EVENT_STORE.values()), no write
StoreGetAllOutcome ==
    [store |-> EVENT_STORE, value |-> None, ticks |-> FALSE,
     resp |-> CallResult("mem", "get_all_events", None, FALSE, None,
                         Store_get_all_events(EVENT_STORE))]

StoreGetAll == StoreCommit(StoreGetAllOutcome)

\* EventStore.update_event(event_data)
StoreUpdateOutcome(data) ==
    LET r == Store_update_event(EVENT_STORE, data)
    IN  [store |-> r.store, value |-> None, ticks |-> r.ret,
         resp |-> CallResult("mem", "update_event", Get(data, "id"), FALSE,
                             IF r.ret THEN "True" ELSE "False", <<>>)]

StoreUpdate(data) == StoreCommit(StoreUpdateOutcome(data))

\* EventStore.delete_event(event_id)
StoreDelete(id) ==
    LET r == Store_delete_event(EVENT_STORE, id)
    IN  StoreCommit([store |-> r.store, value |-> None, ticks |-> FALSE,
                     resp |-> CallResult("mem", "delete_event", id, FALSE,
                                         IF r.ret THEN "True" ELSE "False", <<>>)])

NextSoap == \E xml \in SoapRequests : Soap(xml)

NextSoapStatus == \E xml \in StatusInputs : Soap(xml)

\* the arguments create_soap_response is given: an operation name, data (None
\* or an identifier), success, and an error (None, a message, the empty message)
EncoderInputs ==
    {[operation |-> op, data |-> d, success |-> ok, error |-> e] :
        op \in {"AddEvent", "UpdateEvent", "DeleteEvent", "Unknown", "Error"},
        d \in {None, Uuid(1)}, ok \in BOOLEAN,
        e \in {None, "", "Event not found", "Failed to add event: 'title'"}}

\* the same for GetEvent and GetAllEvents, data being a list of stored events
EncoderEventInputs ==
    {[operation |-> op, data |-> d, success |-> FALSE, error |-> e] :
        op \in {"GetEvent", "GetAllEvents"},
        d \in {<<>>, Db_get_all_events(events, participants)}
              \cup {Db_get_event(events, participants, id) : id \in IdInputs},
        e \in {None, "", "Event not found"}}

\* create_soap_response called on its own; the response is kept as the last answer
Encode(in) ==
    /\ resp' = SoapResponse(200, create_soap_response(in.operation, in.data, in.success, in.error))
    /\ UNCHANGED <<events, participants, EVENT_STORE, issued, clock, enumConstraint, returned,
                   removed, reader>>

\* what parse_event_from_xml reads from the element create_event_xml wrote
Decoded(event_data) == parse_event_from_xml(Serialized(create_event_xml(event_data)))

\* the records that are encoded and decoded: those given to Add, and the
\* stored events as get_all_events returns them
CodecInputs ==
    AddInputs \cup {WhitespaceNameRecord}
    \cup {Db_get_all_events(events, participants)[i] : i \in 1..Len(events)}

\* create_event_xml and then parse_event_from_xml; the record read is kept as
\* the last answer
RoundTrip(event_data) ==
    /\ resp' = [via |-> "codec", status |-> 0, fault |-> FALSE, element |-> "event",
                arg |-> None, text |-> None, data |-> <<Decoded(event_data)>>]
    /\ UNCHANGED <<events, participants, EVENT_STORE, issued, clock, enumConstraint, returned,
                   removed, reader>>

\* the encoder over the events of the store
NextEncode ==
    \/ \E event_data \in CodecInputs : RoundTrip(event_data)
    \/ \E in \in EncoderInputs : Encode(in)
    \/ \E in \in EncoderEventInputs : Encode(in)
    \/ \E data \in BackendAddInputs : CallAdd(data)
    \/ \E id \in IdInputs : CallDelete(id)

NextRest ==
    \/ RestGetAll
    \/ \E id \in IdInputs : RestGet(id)
    \/ \E data \in AddInputs \cup {EmptyDict, WhitespaceNameRecord, EmptyTitleRecord} :
           RestCreate(data)
    \/ \E id \in IdInputs, data \in UpdateInputs : RestUpdate(id, data)
    \/ \E id \in IdInputs : RestDelete(id)

NextDb ==
    \/ \E data \in AddInputs \cup FailingAddInputs : CallAdd(data)
    \/ \E id \in IdInputs \cup {None} : CallGet(id)
    \/ CallGetAll
    \/ \E data \in NoIdUpdateInputs : CallUpdate(data)
    \/ \E data \in UpdateInputs \cup FailingUpdateInputs, id \in IdInputs :
           CallUpdate(("id" :> id) @@ data)
    \/ \E id \in IdInputs \cup {None} : CallDelete(id)

\* the relational store, given records with and without the defaulted fields
NextDefaults ==
    \/ \E data \in DefaultedInputs \cup {BaseRecord} : CallAdd(data)
    \/ \E id \in IdInputs : CallGet(id)
    \/ CallGetAll
    \/ \E id \in IdInputs : CallDelete(id)

NextStore ==
    \/ \E data \in AddInputs : StoreAdd(data)
    \/ \E id \in IdInputs \cup {None} : StoreGet(id)
    \/ StoreGetAll
    \/ \E data \in NoIdUpdateInputs : StoreUpdate(data)
    \/ \E data \in UpdateInputs, id \in IdInputs : StoreUpdate(("id" :> id) @@ data)
    \/ \E id \in IdInputs \cup {None} : StoreDelete(id)

NextIds ==
    \/ \E data \in AddInputs : CallAdd(data)
    \/ \E id \in IdInputs : CallDelete(id)
    \/ \E data \in AddInputs : StoreAdd(data)
    \/ \E id \in IdInputs : StoreDelete(id)

\* every operation of the two stores
NextBackends ==
    \/ \E data \in BackendAddInputs \cup SuppliedIdRecords : CallAdd(data)
    \/ \E data \in BackendAddInputs \cup SuppliedIdRecords : StoreAdd(data)
    \/ \E id \in IdInputs : CallGet(id)
    \/ \E id \in IdInputs : StoreGet(id)
    \/ CallGetAll
    \/ StoreGetAll
    \/ \E data \in NoIdUpdateInputs : CallUpdate(data)
    \/ \E data \in NoIdUpdateInputs : StoreUpdate(data)
    \/ \E data \in BackendUpdateInputs, id \in IdInputs : CallUpdate(("id" :> id) @@ data)
    \/ \E data \in BackendUpdateInputs, id \in IdInputs : StoreUpdate(("id" :> id) @@ data)
    \/ \E id \in IdInputs : CallDelete(id)
    \/ \E id \in IdInputs : StoreDelete(id)

\* the relational store called directly, as test_database.py does
Spec == Init /\ [][NextDb]_vars

\* the relational store, adds of records that lack a defaulted field
SpecDefaults == Init /\ [][NextDefaults]_vars

\* the in-memory store called directly
SpecStore == Init /\ [][NextStore]_vars

\* adds and deletes on both stores, which draw their identifiers from uuid4
SpecIds == Init /\ [][NextIds]_vars

\* the envelope protocol
SpecSoap == Init /\ [][NextSoap]_vars

\* the envelope endpoint, one request of every way it ends
SpecSoapStatus == Init /\ [][NextSoapStatus]_vars

\* the JSON/HTTP protocol
SpecRest == Init /\ [][NextRest]_vars

\* Requests handled concurrently.  A call that writes takes effect at its one
\* db.session.commit(): what it wrote before is invisible to the other
\* sessions, so it is one step.  get_event reads in two statements, with no
\* lock and no transaction around them: Event.query.get(event_id) reads the
\* row, and to_dict loads event.participants (lazy=True) with a second SELECT.
ConcurrentUpdateInputs == {[title |-> "Standup", participants |-> <<"Dave">>]}

\* get_event, first statement: Event.query.get(event_id); None is returned at
\* once when there is no row
GetSelectEvent(id) ==
    /\ ~reader.busy
    /\ IF RowIndex(events, id) = 0
       THEN /\ resp' = CallResult("db", "get_event", id, FALSE, None, <<>>)
            /\ reader' = reader
       ELSE /\ reader' = [busy |-> TRUE, id |-> id, row |-> <<events[RowIndex(events, id)]>>,
                          seen |-> participants]
            /\ resp' = resp
    /\ UNCHANGED <<events, participants, EVENT_STORE, issued, clock, enumConstraint, returned,
                   removed>>

\* get_event, second statement: to_dict loads the participants of the row it
\* holds.  It sees the table as it is now or, where the reads of a session
\* share a snapshot, as it was at the first statement.
GetLoadParticipants ==
    /\ reader.busy
    /\ \E pa \in {participants, reader.seen} :
           resp' = CallResult("db", "get_event", reader.id, FALSE, None,
                              <<to_dict(reader.row[1], pa)>>)
    /\ reader' = Idle
    /\ UNCHANGED <<events, participants, EVENT_STORE, issued, clock, enumConstraint, returned,
                   removed>>

NextConcurrent ==
    \/ \E data \in BackendAddInputs : CallAdd(data)
    \/ \E data \in ConcurrentUpdateInputs, id \in IdInputs : CallUpdate(("id" :> id) @@ data)
    \/ \E id \in IdInputs : CallDelete(id)
    \/ \E id \in IdInputs : GetSelectEvent(id)
    \/ GetLoadParticipants

\* get_event handled concurrently with the calls that write
SpecConcurrent == Init /\ [][NextConcurrent]_vars

\* create_soap_response applied to the events of the store
SpecEncode == Init /\ [][NextEncode]_vars

\* the relational and the in-memory store, each called directly
SpecBackends == Init /\ [][NextBackends]_vars

-----------------------------------------------------------------------------
(* The properties.                                                         *)

\* id is the primary key of a row of table `events`
Live(id) == \E i \in 1..Len(events) : events[i].id = id

\* the row of table `events` with primary key id, before and after a step
RowOf(ev, id) == ev[CHOOSE i \in 1..Len(ev) : ev[i].id = id]

\* a payload with an importance or a recurrence outside its enumeration
BadEnum(data) ==
    \/ Has(data, "importance") /\ data["importance"] \notin Importances
    \/ Has(data, "recurrence") /\ data["recurrence"] \notin Recurrences

\* the strings of the model in the formats YYYY-MM-DD and HH:MM:SS
IsoDates == {"2025-10-05"}

IsoTimes == {"10:00:00"}

\* a payload with a date or time string that is not in its format
BadFormat(data) ==
    \/ Has(data, "date") /\ data["date"] # None /\ data["date"] \notin IsoDates
    \/ Has(data, "time") /\ data["time"] # None /\ data["time"] \notin IsoTimes

\* the names of a participant list that are names: not empty
NamesOf(list) == SelectSeq(list, LAMBDA n : n # "" /\ n # None)

\* the tables a handler leaves are the tables it found
Unchanged(r) == r.events = events /\ r.participants = participants

\* the one child of the Body of an envelope request, its operation, its identifier
ChildOf(xml) == xml.children[1]

OperationOf(xml) == ChildOf(xml).tag[2]

TargetOf(xml) ==
    IF OperationOf(xml) \in {"GetEvent", "DeleteEvent"}
    THEN ChildOf(xml).eventId
    ELSE Get(ChildOf(xml).event, "id")

\* C1: an envelope AddEvent or UpdateEvent whose importance or recurrence is
\* outside its enumeration is answered with a fault, and the tables after the
\* request equal the tables before it.
C1_ValidationGate ==
    \A xml \in SoapInputs :
        ( /\ Len(xml.children) = 1
          /\ OperationOf(xml) \in {"AddEvent", "UpdateEvent"}
          /\ BadEnum(ChildOf(xml).event) )
        => LET r == SoapOutcome(xml)
           IN  r.resp.fault /\ r.resp.element = None /\ Unchanged(r)

\* C1 witness: an UpdateEvent with importance "urgent" was answered with a fault
\* while the store holds an event.
C1_Witness ==
    /\ resp.via = "soap" /\ resp.fault
    /\ resp.text = "Failed to update event: Invalid importance value: urgent"
    /\ events # <<>>

\* C2: every stored event has its importance and its recurrence within the
\* enumerations, whatever requests were made.
C2_StoredEnumsValid ==
    \A i \in 1..Len(events) :
        events[i].importance \in Importances /\ events[i].recurrence \in Recurrences

\* what C3 says of the answer to a body that is not valid
BadRequestAnswer(r) == r.resp.status = 400 /\ r.resp.fault /\ Unchanged(r)

\* C3: a POST /events or PUT /events/{id} whose body has a value outside an
\* enumeration or a malformed date or time is answered 400 with an error
\* payload, and the tables are untouched.
C3_BadBodyIs400 ==
    /\ \A data \in AddInputs :
        (BadEnum(data) \/ BadFormat(data)) => BadRequestAnswer(RestCreateOutcome(data))
    /\ \A id \in IdInputs, data \in UpdateInputs :
        (BadEnum(data) \/ BadFormat(data)) => BadRequestAnswer(RestUpdateOutcome(id, data))

\* what C4 says of the answer to an envelope request naming an absent identifier
NotFoundAnswer(xml, r) ==
    /\ Unchanged(r)
    /\ IF OperationOf(xml) = "GetEvent"
       THEN r.resp.fault /\ r.resp.element = None /\ r.resp.text = "Event not found"
       ELSE /\ ~r.resp.fault
            /\ r.resp.element = OperationOf(xml) \o "Response"
            /\ r.resp.text = "false"

\* the envelope requests that name an identifier which is not in the store
NamesAbsent(xml) ==
    /\ Len(xml.children) = 1
    /\ OperationOf(xml) \in {"GetEvent", "UpdateEvent", "DeleteEvent"}
    /\ TargetOf(xml) # None
    /\ ~Live(TargetOf(xml))

\* C4 as stated: for an identifier that is not in the store, GetEvent yields
\* the fault "Event not found", UpdateEvent and DeleteEvent yield the normal
\* response with the text false, and the store is unchanged.
C4_NotFound_AnyPayload ==
    \A xml \in SoapInputs : NamesAbsent(xml) => NotFoundAnswer(xml, SoapOutcome(xml))

\* C4 as amended: the same, for the UpdateEvent requests whose importance and
\* recurrence, when given, are within their enumerations (the others are
\* answered with the validation fault of C1 before the store is asked).
C4_NotFound ==
    \A xml \in SoapInputs :
        ( /\ NamesAbsent(xml)
          /\ OperationOf(xml) = "UpdateEvent" => ~BadEnum(ChildOf(xml).event) )
        => NotFoundAnswer(xml, SoapOutcome(xml))

\* C4 witness: an UpdateEvent was answered false, without a fault, while the
\* store holds an event.
C4_Witness ==
    /\ resp.via = "soap" /\ ~resp.fault
    /\ resp.element = "UpdateEventResponse" /\ resp.text = "false"
    /\ events # <<>>

\* C5: every row of table `participants` refers to a row of table `events`.
C5_NoOrphanParticipant ==
    \A i \in 1..Len(participants) : Live(participants[i].event_id)

\* C5 witness: delete_event returned True for an event that was added with
\* participants, and participants of another event remain.
C5_Witness ==
    /\ resp.via = "db" /\ resp.element = "delete_event" /\ resp.text = "True"
    /\ resp.arg \in returned
    /\ participants # <<>>

\* C6: a successful Update leaves every field that is absent from the payload
\* as it was, and refreshes updated_at.  Stated of the in-memory store.
C6_PartialUpdate_InMemory ==
    \A id \in IdInputs, data \in UpdateInputs :
        LET r == Store_update_event(EVENT_STORE, ("id" :> id) @@ data)
            old == Store_get_event(EVENT_STORE, id)[1]
            new == Store_get_event(r.store, id)[1]
        IN  r.ret
            => /\ \A k \in DOMAIN old \ DOMAIN data : Has(new, k) /\ new[k] = old[k]
               /\ new["id"] = old["id"]
               /\ Has(new, "updated_at")

\* C6, of the relational store: a successful update_event leaves every field
\* that is absent from the payload, the id, created_at and every other event
\* as they were, gives the text fields of the payload their new values and
\* sets updated_at to a later time.
C6_PartialUpdate_Relational ==
    \A id \in IdInputs, data \in UpdateInputs :
        LET r == CallUpdateOutcome(("id" :> id) @@ data)
            old == RowOf(events, id)
            new == RowOf(r.events, id)
        IN  (~r.resp.fault /\ r.resp.text = "True")
            => /\ \A f \in ScalarFields \ DOMAIN data : new[f] = old[f]
               /\ \A f \in (ScalarFields \ {"date", "time"}) \cap DOMAIN data :
                      new[f] = data[f]
               /\ new.id = old.id
               /\ new.created_at = old.created_at
               /\ new.updated_at > old.updated_at
               /\ ~Has(data, "participants")
                      => ParticipantNames(r.participants, id) = ParticipantNames(participants, id)
               /\ Len(r.events) = Len(events)
               /\ \A i \in 1..Len(events) : events[i].id # id => r.events[i] = events[i]

C9_FreshIdentifier ==
    \A data \in AddInputs :
        /\ ~CallAddOutcome(data).resp.fault => CallAddOutcome(data).value \notin returned
        /\ StoreAddOutcome(data).value \notin returned

\* C9 witness: a second identifier was returned after the first event was
\* deleted.
C9_Witness ==
    /\ Cardinality(returned) = 2
    /\ resp.element = "add_event" /\ ~resp.fault
    /\ Len(events) + Len(EVENT_STORE) = 1

\* the valid records: the required fields present, date and time in their
\* formats, importance and recurrence (when given) within their enumerations,
\* participant names not empty
ValidRecord(data) ==
    /\ \A f \in {"title", "date", "time", "coordinator"} : Has(data, f) /\ Truthy(data[f])
    /\ ~BadEnum(data) /\ ~BadFormat(data)
    /\ Has(data, "participants") => NamesOf(data["participants"]) = data["participants"]

\* C10: add_event of a valid record returns a non-empty identifier, and
\* get_event of that identifier shows the title, date, time, importance,
\* location, coordinator and recurrence of the record and its participants in
\* the given order.
C10_AddThenGet ==
    \A data \in AddInputs :
        ValidRecord(data)
        => LET r == CallAddOutcome(data)
               got == Db_get_event(r.events, r.participants, r.value)
           IN  /\ ~r.resp.fault
               /\ r.value # None /\ r.value # "" /\ r.resp.text = r.value
               /\ got # <<>>
               /\ got[1].id = r.value
               /\ \A f \in {"title", "date", "time", "importance", "location",
                            "coordinator", "recurrence"} \cap DOMAIN data :
                      got[1][f] = data[f]
               /\ got[1].participants = GetDefault(data, "participants", <<>>)

\* C10 witness: add_event returned the identifier of Scenario A's record, and
\* get_event shows its fields and its three participants.
C10_Witness ==
    /\ resp.via = "db" /\ resp.element = "add_event" /\ ~resp.fault
    /\ Db_get_event(events, participants, resp.text) # <<>>
    /\ LET got == Db_get_event(events, participants, resp.text)[1]
       IN  /\ got.title = "Team Meeting" /\ got.date = "2025-10-05"
           /\ got.time = "10:00:00" /\ got.recurrence = "weekly"
           /\ got.participants = <<"Alice", "Bob", "Carol">>

\* the event is in the in-memory store
StoreLive(id) == StoreIndex(EVENT_STORE, id) # 0

\* the update payloads without an identifier, with the identifier None, and
\* with one of the identifiers ids (those that name no event of a store)
AbsentUpdates(ids) ==
    NoIdUpdateInputs
    \cup {("id" :> None) @@ data : data \in UpdateInputs}
    \cup {("id" :> id) @@ data : data \in UpdateInputs, id \in ids}

\* C11: update_event with an identifier that is not in the store, or with no
\* identifier, returns False, raises nothing and leaves the store as it was,
\* in the relational store and in the in-memory store.
C11_UpdateAbsent ==
    /\ \A data \in AbsentUpdates({id \in IdInputs : ~Live(id)}) :
           LET r == CallUpdateOutcome(data)
           IN  ~r.resp.fault /\ r.resp.text = "False" /\ Unchanged(r)
    /\ \A data \in AbsentUpdates({id \in IdInputs : ~StoreLive(id)}) :
           LET r == StoreUpdateOutcome(data)
           IN  ~r.resp.fault /\ r.resp.text = "False" /\ r.store = EVENT_STORE

\* C11 witness: the in-memory update_event returned False for the identifier
\* of an event of the relational store, while both stores hold an event.
C11_Witness ==
    /\ resp.via = "mem" /\ resp.element = "update_event" /\ resp.text = "False"
    /\ Live(resp.arg)
    /\ EVENT_STORE # <<>>

\* C12: get_event and get_all_events change nothing: the events, their field
\* values and their participants are the same after the call as before it,
\* for an identifier that is in the store and for one that is not, in the
\* relational store and in the in-memory store; the call raises nothing and
\* get_event returns an event exactly when the identifier is in the store.
C12_ReadOnly ==
    /\ \A id \in IdInputs \cup {None} :
           /\ Unchanged(CallGetOutcome(id))
           /\ ~CallGetOutcome(id).resp.fault
           /\ (CallGetOutcome(id).resp.data # <<>>) = Live(id)
           /\ StoreGetOutcome(id).store = EVENT_STORE
           /\ (StoreGetOutcome(id).resp.data # <<>>) = StoreLive(id)
    /\ Unchanged(CallGetAllOutcome)
    /\ Len(CallGetAllOutcome.resp.data) = Len(events)
    /\ StoreGetAllOutcome.store = EVENT_STORE
    /\ StoreGetAllOutcome.resp.data = EVENT_STORE

\* C12 witness: get_event returned an event with its participants while both
\* stores hold an event.
C12_Witness ==
    /\ resp.via = "db" /\ resp.element = "get_event"
    /\ resp.data # <<>>
    /\ resp.data[1].participants # <<>>
    /\ EVENT_STORE # <<>>

\* the operation names parse_soap_request looks for
Operations == {"AddEvent", "GetEvent", "GetAllEvents", "UpdateEvent", "DeleteEvent"}

\* the child is named as an operation
Recognized(child) == \E op \in Operations : EndsWith(child.tag, op)

\* the envelopes with a Body
Envelopes == {xml \in SoapInputs : xml.wellformed /\ xml.body}

\* the first recognized child of the Body
FirstRecognized(xml) ==
    xml.children[CHOOSE i \in 1..Len(xml.children) :
                    /\ Recognized(xml.children[i])
                    /\ \A j \in 1..(i - 1) : ~Recognized(xml.children[j])]

\* C13: when the Body has several children, the request is handled as the
\* request with only the first recognized child would be: same response, same
\* store afterwards.
C13_FirstChildWins ==
    \A xml \in Envelopes :
        (\E i \in 1..Len(xml.children) : Recognized(xml.children[i]))
        => SoapOutcome(xml)
             = SoapOutcome([xml EXCEPT !.children = <<FirstRecognized(xml)>>])

\* C14: when no child of the Body is a recognized operation, the children are
\* skipped without an exception (status 200), the response is the fault
\* "Unknown operation", and the store is as it was.
C14_UnknownOperation ==
    \A xml \in Envelopes :
        (\A i \in 1..Len(xml.children) : ~Recognized(xml.children[i]))
        => LET r == SoapOutcome(xml)
           IN  /\ r.resp.fault /\ r.resp.element = None
               /\ r.resp.text = "Unknown operation"
               /\ r.resp.status = 200
               /\ Unchanged(r)

\* C14 witness: a request was answered "Unknown operation" while the store
\* holds an event.
C14_Witness ==
    /\ resp.via = "soap" /\ resp.fault /\ resp.text = "Unknown operation"
    /\ events # <<>>

\* C15: a request that is not well-formed XML, or has no Body, is answered
\* with a fault, and the store is as it was, whatever elements it contains.
C15_MalformedEnvelope ==
    \A xml \in SoapInputs \ Envelopes :
        LET r == SoapOutcome(xml)
        IN  /\ r.resp.fault /\ r.resp.element = None
            /\ r.resp.status = 500
            /\ r.value = None
            /\ Unchanged(r)

\* C15 witness: a request without a Body was answered with the fault "SOAP Body
\* not found" while the store holds an event.
C15_Witness ==
    /\ resp.via = "soap" /\ resp.fault /\ resp.text = "SOAP Body not found"
    /\ events # <<>>

\* what C16 says of the response encoded for the arguments in
EncodedAsSaid(in) ==
    LET b == create_soap_response(in.operation, in.data, in.success, in.error)
    IN  /\ b.fault # (b.element # None)
        /\ in.error # None => b.fault /\ b.faultcode = "Server" /\ b.text = in.error

\* C16: every encoded response has exactly one of a Fault and an
\* <operation>Response element, and whenever create_soap_response is given an
\* error, whatever its text, the Body is the Fault with fault code Server and
\* the text of the error.
C16_FaultXorResponse ==
    /\ \A in \in EncoderInputs : EncodedAsSaid(in)
    /\ \A in \in EncoderEventInputs : EncodedAsSaid(in)

\* C17: GetAllEvents is answered with the element GetAllEventsResponse and no
\* fault, holding one event element per stored event, in the order of the
\* store, each with the id of its event: none when the store is empty.
C17_GetAllEvents ==
    LET r == SoapOutcome(Envelope(<<"", "GetAllEvents">>, EmptyDict, None))
    IN  /\ ~r.resp.fault /\ r.resp.status = 200
        /\ r.resp.element = "GetAllEventsResponse"
        /\ Len(r.resp.data) = Len(events)
        /\ \A i \in 1..Len(events) : r.resp.data[i]["id"] = events[i].id
        /\ Unchanged(r)

\* C17 witness: GetAllEvents was answered with no event element and no fault
\* after the only event was deleted.
C17_Witness ==
    /\ resp.via = "soap" /\ resp.element = "GetAllEventsResponse" /\ ~resp.fault
    /\ resp.data = <<>>
    /\ events = <<>> /\ returned # {}

\* the names that are empty or consist of white space, among the strings of
\* the model
BlankNames == {"", " "}

\* C18: no stored participant has an empty or whitespace-only name, whatever
\* requests were made.
C18_NoBlankParticipant ==
    \A i \in 1..Len(participants) : participants[i].name \notin BlankNames

\* the populated fields of a record: those with a value that is not None and
\* not empty
Populated(data) ==
    {k \in DOMAIN data \cap (XmlFields \cup {"participants"}) :
        IF k = "participants" THEN data[k] # <<>> ELSE Truthy(data[k])}

\* C19: for every valid record, parse_event_from_xml of the element that
\* create_event_xml writes is equal to the record on every populated field
\* among id, title, agenda, date, time, importance, location, coordinator,
\* recurrence and participants.
C19_RoundTrip ==
    \A r \in CodecInputs :
        ValidRecord(r) => \A k \in Populated(r) : Has(Decoded(r), k) /\ Decoded(r)[k] = r[k]

\* C19 witness: a stored event was encoded and decoded, and the record read
\* has its id and its participants.
C19_Witness ==
    /\ resp.via = "codec"
    /\ Get(resp.data[1], "id") = Uuid(1)
    /\ Has(resp.data[1], "participants")
    /\ resp.data[1]["participants"] = <<"Dave", "Alice">>
    /\ Live(Uuid(1))

\* C20: every stored event has a non-empty title, a non-empty coordinator, a
\* date and a time, whatever requests were made.
C20_RequiredFields ==
    \A i \in 1..Len(events) :
        /\ Truthy(events[i].title) /\ Truthy(events[i].coordinator)
        /\ events[i].date # NoValue /\ events[i].time # NoValue

CommittedLists ==
    {SkipEmpty(data["participants"]) : data \in BackendAddInputs \cup ConcurrentUpdateInputs}

\* C22: a get_event handled concurrently with Add, Update and Delete returns
\* an event only with the full participant list of some completed Add or
\* Update, never with part of it or with the participants of a deleted event.
C22_NoTornRead ==
    (resp.via = "db" /\ resp.element = "get_event" /\ resp.data # <<>>)
    => resp.data[1].participants \in CommittedLists

\* the fields of a record a client sees, the id apart
ClientFields == ScalarFields \cup {"participants", "created_at", "updated_at"}

\* two records are equal on every client-visible field
SameRecord(a, b) ==
    \A f \in ClientFields : Has(a, f) = Has(b, f) /\ (Has(a, f) => a[f] = b[f])

\* C23: the relational and the in-memory store, given the same record to add
\* and then asked for the event, both return an identifier and return records
\* equal on every client-visible field.
C23_SameContract ==
    \A data \in AddInputs :
        LET a == Db_add_event(events, participants, data, uuid4, utcnow, enumConstraint)
            b == Store_add_event(EVENT_STORE, data, uuid4)
        IN  /\ a.ok
            /\ SameRecord(Db_get_event(a.events, a.participants, a.value)[1],
                          Store_get_event(b.store, b.value)[1])

\* what C24 says of the answers to GET and DELETE of an absent identifier and
\* to a successful POST
OtherStatuses ==
    /\ \A id \in IdInputs :
           ~Live(id)
           => /\ api_get_event(events, participants, id).resp.status = 404
              /\ api_delete_event(events, participants, id).resp.status = 404
              /\ Unchanged(api_delete_event(events, participants, id))
    /\ \A data \in AddInputs :
           LET r == RestCreateOutcome(data)
           IN  r.value # None => r.resp.status = 201 /\ r.resp.text = r.value

\* what C24 says of the answer to PUT /api/events/<id> with body data
PutAnswer(id, data) ==
    LET r == RestUpdateOutcome(id, data)
    IN  IF Live(id)
        THEN r.resp.status = 200
        ELSE r.resp.status = 404 /\ Unchanged(r)

Rejected(data) ==
    \/ Has(data, "date") /\ data["date"] # None /\ ~strptime_date(data["date"]).ok
    \/ Has(data, "time") /\ data["time"] # None /\ ~strptime_time(data["time"]).ok

\* an envelope AddEvent or UpdateEvent with such a payload
MalformedRequest(xml) ==
    /\ xml.wellformed /\ xml.body
    /\ Len(xml.children) = 1
    /\ OperationOf(xml) \in {"AddEvent", "UpdateEvent"}
    /\ Rejected(ChildOf(xml).event)

\* the answer is a fault and the tables are the tables before the request
FaultAndUnchanged(r) == r.resp.fault /\ Unchanged(r)

Front(seq) == SubSeq(seq, 1, Len(seq) - 1)

\* the add appended one event whose id is the fresh identifier it returned,
\* and the events stored before are as they were
DbAddedFresh(r) ==
    /\ r.value = uuid4 /\ ~Live(uuid4)
    /\ Len(r.events) = Len(events) + 1
    /\ Front(r.events) = events
    /\ r.events[Len(r.events)].id = r.value

StoreAddedFresh(r) ==
    /\ r.value = uuid4 /\ ~StoreLive(uuid4)
    /\ Len(r.store) = Len(EVENT_STORE) + 1
    /\ Front(r.store) = EVENT_STORE
    /\ r.store[Len(r.store)]["id"] = r.value

\* C26: Add neither uses nor alters an identifier the caller supplies: the
\* input record, id key included, is after the call what it was before, and
\* the event is stored under the fresh identifier Add returns, the events
\* stored before (one with the supplied id among them) being left alone.
C26_SuppliedIdIgnored ==
    \A data \in SuppliedIdRecords \cup BackendAddInputs :
        /\ Db_add_event_data(data, uuid4) = data
        /\ Store_add_event_data(data, uuid4) = data
        /\ DbAddedFresh(CallAddOutcome(data))
        /\ StoreAddedFresh(StoreAddOutcome(data))
        /\ Has(data, "id") /\ data["id"] = NeverIssued =>
               /\ CallAddOutcome(data).value # data["id"]
               /\ ~(\E i \in 1..Len(CallAddOutcome(data).events) :
                       CallAddOutcome(data).events[i].id = data["id"])
               /\ ~(\E i \in 1..Len(StoreAddOutcome(data).store) :
                       StoreAddOutcome(data).store[i]["id"] = data["id"])

\* C26 witness: the in-memory store holds a first event and a second one
\* added from a record that carried the id of the first; the second is stored
\* under the identifier its add returned.
C26_Witness ==
    /\ Len(EVENT_STORE) = 2
    /\ EVENT_STORE[1]["id"] = Uuid(1)
    /\ EVENT_STORE[2]["title"] = "Copy" /\ EVENT_STORE[2]["id"] # Uuid(1)
    /\ resp.via = "mem" /\ resp.element = "add_event"
    /\ resp.text = EVENT_STORE[2]["id"] /\ resp.text \in returned

\* the add succeeded, and the row it stored and the record a Get of its
\* identifier returns have the defaults of the fields the record lacks
StoredDefaults(data, r) ==
    LET row == r.events[Len(r.events)]
        got == Db_get_event(r.events, r.participants, r.value)
    IN  /\ r.ok /\ r.value # None
        /\ got # <<>>
        /\ ~Has(data, "importance") =>
               row.importance = "medium" /\ got[1].importance = "medium"
        /\ ~Has(data, "recurrence") =>
               row.recurrence = "none" /\ got[1].recurrence = "none"

\* C27: an Add whose record has no importance stores importance medium, one
\* whose record has no recurrence stores recurrence none, and a Get of the
\* new identifier returns those values; through the store and through the
\* validating service alike.
C27_Defaults ==
    \A data \in DefaultedInputs :
        /\ StoredDefaults(data, Db_add_event(events, participants, data, uuid4, utcnow,
                                             enumConstraint))
        /\ StoredDefaults(data, Svc_add_event(events, participants, data, uuid4, utcnow,
                                              enumConstraint))

\* C27 witness: a Get returned the event added from the record that has
\* neither field, with importance medium and recurrence none.
C27_Witness ==
    /\ resp.via = "db" /\ resp.element = "get_event" /\ resp.data # <<>>
    /\ resp.data[1].title = "Defaults"
    /\ resp.data[1].importance = "medium" /\ resp.data[1].recurrence = "none"

\* the identifiers get_all_events returns, of either store
DbIds(ev, pa) == {Db_get_all_events(ev, pa)[i].id : i \in 1..Len(ev)}

MemIds(store) ==
    {Store_get_all_events(store)[i]["id"] : i \in 1..Len(Store_get_all_events(store))}

\* the identifiers add_event returned, less those a delete_event returning
\* True was called with; no identifier is in both stores
IdsAreAddedLessDeleted ==
    /\ DbIds(events, participants) \cup MemIds(EVENT_STORE) = returned \ removed
    /\ DbIds(events, participants) \cap MemIds(EVENT_STORE) = {}

\* get_event returns a record for the identifiers of get_all_events and no other
GetAgreesWithGetAll ==
    \A id \in IdInputs :
        /\ Db_get_event(events, participants, id) # <<>>
               <=> id \in DbIds(events, participants)
        /\ Store_get_event(EVENT_STORE, id) # <<>> <=> id \in MemIds(EVENT_STORE)

\* an add puts the identifier it returns in its store, a delete that returns
\* True takes its identifier out, every other call leaves the identifiers
StepsOfIds ==
    /\ \A data \in BackendAddInputs \cup SuppliedIdRecords :
        /\ DbIds(CallAddOutcome(data).events, CallAddOutcome(data).participants)
               = DbIds(events, participants) \cup ({CallAddOutcome(data).value} \ {None})
        /\ MemIds(StoreAddOutcome(data).store)
               = MemIds(EVENT_STORE) \cup {StoreAddOutcome(data).value}
    /\ \A id \in IdInputs :
        /\ DbIds(CallDeleteOutcome(id).events, CallDeleteOutcome(id).participants)
               = IF CallDeleteOutcome(id).resp.text = "True"
                 THEN DbIds(events, participants) \ {id}
                 ELSE DbIds(events, participants)
        /\ MemIds(Store_delete_event(EVENT_STORE, id).store)
               = IF Store_delete_event(EVENT_STORE, id).ret
                 THEN MemIds(EVENT_STORE) \ {id}
                 ELSE MemIds(EVENT_STORE)
        /\ CallDeleteOutcome(id).resp.text = "True" => id \in DbIds(events, participants)
        /\ Store_delete_event(EVENT_STORE, id).ret => id \in MemIds(EVENT_STORE)

UpdateKeepsIds ==
    \A data \in {("id" :> id) @@ p : p \in BackendUpdateInputs, id \in IdInputs}
                \cup NoIdUpdateInputs :
        /\ DbIds(CallUpdateOutcome(data).events, CallUpdateOutcome(data).participants)
               = DbIds(events, participants)
        /\ MemIds(StoreUpdateOutcome(data).store) = MemIds(EVENT_STORE)

\* C28: after any sequence of Add, Update and Delete calls the identifiers
\* GetAll returns, which are those Get returns a record for, are the
\* identifiers successful Adds returned less those a Delete returned true
\* for; Update neither adds nor removes an identifier.
C28_IdSet ==
    /\ IdsAreAddedLessDeleted
    /\ GetAgreesWithGetAll
    /\ StepsOfIds
    /\ UpdateKeepsIds

\* C28 witness: one identifier was returned by an add, its event was updated
\* (the clock moved twice for one identifier issued) and then deleted by a
\* delete that returned True; no store holds an event.
C28_Witness ==
    /\ issued = 1 /\ clock = 2
    /\ returned # {} /\ removed = returned
    /\ resp.element = "delete_event" /\ resp.text = "True" /\ resp.arg \in returned
    /\ events = <<>> /\ EVENT_STORE = <<>>

\* the local name of the child is the name of an operation: nothing but the
\* namespace stands before it in the tag
ExactlyNamed(child) ==
    /\ child.tag[1] \in {"", SchemaNamespace}
    /\ child.tag[2] \in Operations

\* C29: a request is dispatched only when the local name of a child of the
\* Body is exactly AddEvent, GetEvent, GetAllEvents, UpdateEvent or
\* DeleteEvent; a child whose tag merely ends with one of the names is
\* unrecognized: no operation is read from it and the store is as it was.
C29_ExactLocalName ==
    \A xml \in SoapRequests :
        ( /\ xml.wellformed /\ xml.body
          /\ \A i \in 1..Len(xml.children) : ~ExactlyNamed(xml.children[i]) )
        => /\ parse_soap_request(xml).operation = None
           /\ SoapOutcome(xml).resp.fault
           /\ Unchanged(SoapOutcome(xml))

\* the try block of soap_endpoint raised: parse_soap_request did (malformed
\* envelope, no Body), or the add_event or update_event it called did
\* (validation failure, store failure)
Raised(xml) ==
    LET req == parse_soap_request(xml)
    IN  \/ ~req.ok
        \/ /\ req.operation = "AddEvent"
           /\ ~Svc_add_event(events, participants, req.event_data, uuid4, utcnow,
                             enumConstraint).ok
        \/ /\ req.operation = "UpdateEvent"
           /\ ~Svc_update_event(events, participants, req.event_data, utcnow,
                                enumConstraint).ok

\* C30: the envelope endpoint answers 500 exactly when handling the request
\* raised an exception (malformed envelope, validation failure, store
\* failure), and then with a fault; the faults "Event not found" and "Unknown
\* operation" and every response that is not a fault are answered 200.
C30_Status500IffRaised ==
    \A xml \in StatusInputs :
        LET answer == SoapOutcome(xml).resp
            raised == Raised(xml)
        IN  /\ answer.status = IF raised THEN 500 ELSE 200
            /\ raised => answer.fault
            /\ ~xml.wellformed \/ ~xml.body => raised
            /\ ( /\ xml.wellformed /\ xml.body /\ Len(xml.children) = 1
                 /\ OperationOf(xml) \in {"AddEvent", "UpdateEvent"}
                 /\ BadEnum(ChildOf(xml).event) ) => raised
            /\ ~answer.fault => answer.status = 200
            /\ answer.text \in {"Event not found", "Unknown operation"}
                   => answer.fault /\ answer.status = 200

\* C30 witness: a GetEvent for an identifier that is not stored was answered
\* with the fault "Event not found" and status 200, while the store holds an
\* event.
C30_Witness ==
    /\ resp.via = "soap" /\ resp.fault /\ resp.text = "Event not found"
    /\ resp.status = 200
    /\ events # <<>>

====
